---- MODULE Spec2Model ----
(***************************************************************************)
(* VortexAi: the query tool (vortexai.py, main) and the setup tool         *)
(* (installation.py, main_installation) as state machines.                 *)
(*                                                                         *)
(* Strings the code inspects character by character (the credential) are   *)
(* sequences of one-character strings.  Everything the code prints is      *)
(* appended to `out` as a record [k, n, s]: the kind of message, a number  *)
(* (the record number of a header) and a text (a name, a bullet's item).   *)
(***************************************************************************)
EXTENDS Integers, Sequences, FiniteSets, TLC

\* ------------------------------------------------------------------ bounds
\* longest content of the fallback credential file, in characters
MaxLen == 4
\* most vulnerability records in an answer
MaxRecords == 2
\* most elements of a list-valued field of a record
MaxList == 2

VARIABLES
    \* ---- the query tool's environment
    envKey,        \* os.getenv("GEMINI_API_KEY"): None when unset, else a string
    keyFile,       \* /usr/share/vortexai/apikey.txt: [kind, content]
    resultsFile,   \* the path given as --results_file: its kind
    server,        \* which answer texts the remote endpoint may embed: "all", "few"
    \* ---- the query tool's state
    pc,            \* position in main()
    api_key,       \* the local api_key
    keyFileOps,    \* operations performed on the fallback file, in order
    posted,        \* the key of each apiUrl POSTed, in order
    response,      \* [status, envelope, text] of the response, or NoResponse
    ai_response_json, \* the parsed answer, or NoValue
    logFile,       \* content of <file_path>.log: NoFile, or the text written
    logTried,      \* whether the log write has been attempted
    i,             \* records rendered so far by the for loop
    out,           \* what has been printed
    \* ---- the setup tool
    ipc,           \* position in main_installation()
    inst,          \* environment of the setup tool (what each step will do)
    steps,         \* steps the setup tool has attempted, in order
    inst_api_key,  \* setup_api_key's local api_key
    api_key_setup_successful, \* main_installation's local: "unset", "true", "false"
    exitCode,      \* the process's exit code; -1 while it runs
    iout           \* what the setup tool has printed

qvars == <<envKey, keyFile, resultsFile, server, pc, api_key, keyFileOps,
           posted, response, ai_response_json, logFile, logTried, i, out>>
ivars == <<ipc, inst, steps, inst_api_key, api_key_setup_successful, exitCode, iout>>
vars == <<qvars, ivars>>

\* ------------------------------------------------------------------ strings
\* Python's None for a str-valued local; no string over Chars equals it.
None == <<"<None>">>

\* characters str.strip() removes
Whitespace == {" ", "\n"}
Chars == {"k"} \cup Whitespace

\* all strings over S of length at most n
RECURSIVE StringsUpTo(_, _)
StringsUpTo(S, n) ==
    IF n = 0 THEN {<<>>}
    ELSE LET shorter == StringsUpTo(S, n - 1)
         IN shorter \cup {Append(s, c) : s \in {t \in shorter : Len(t) = n - 1}, c \in S}

\* str.lstrip(): drop characters from the left while they are whitespace
RECURSIVE LStrip(_)
LStrip(s) ==
    IF s = <<>> THEN <<>>
    ELSE IF Head(s) \in Whitespace THEN LStrip(Tail(s)) ELSE s

\* str.rstrip(): drop characters from the right while they are whitespace
RECURSIVE RStrip(_)
RStrip(s) ==
    IF s = <<>> THEN <<>>
    ELSE IF s[Len(s)] \in Whitespace THEN RStrip(SubSeq(s, 1, Len(s) - 1)) ELSE s

\* a mutant of Strip: trims only the left side
StripLeftOnly(s) == LStrip(s)

\* str.strip()
Strip(s) == RStrip(LStrip(s))

\* `not api_key`: None and the empty string are falsy
Falsy(s) == s = None \/ s = <<>>

\* ------------------------------------------------------------------ printing
Msg(kind) == [k |-> kind, n |-> 0, s |-> ""]
MsgN(kind, num, text) == [k |-> kind, n |-> num, s |-> text]
Printed(kind) == \E j \in 1..Len(out) : out[j].k = kind

\* ------------------------------------------------------------------ JSON
\* A JSON value is a record [t, s, a]: its type, its text (a string's content,
\* a member's key) and its children (an array's elements, an object's members
\* in insertion order, a member's one value).
JStr(x) == [t |-> "str", s |-> x, a |-> <<>>]
JNull == [t |-> "null", s |-> "", a |-> <<>>]
JArr(elems) == [t |-> "arr", s |-> "", a |-> elems]
JObj(members) == [t |-> "obj", s |-> "", a |-> members]
JPair(key, v) == [t |-> "pair", s |-> key, a |-> <<v>>]

\* A text is a sequence of tokens [k, s, n]: punctuation, a string literal with
\* its content s, the literal null, a space, a newline followed by n spaces,
\* or a word that is no JSON.
Tok(kind) == [k |-> kind, s |-> "", n |-> 0]
TStr(x) == [k |-> "str", s |-> x, n |-> 0]
TNl(depth) == [k |-> "nl", s |-> "", n |-> depth]
IsWsTok(tok) == tok.k \in {"sp", "nl"}

RECURSIVE SkipWs(_)
SkipWs(ts) ==
    IF ts # <<>> /\ IsWsTok(Head(ts)) THEN SkipWs(Tail(ts)) ELSE ts

ParseFail == [ok |-> FALSE, v |-> JNull, rest |-> <<>>]
ParseOk(val, ts) == [ok |-> TRUE, v |-> val, rest |-> ts]

\* dict[key] = v while decoding an object: a repeated key keeps its first
\* position and takes the last value
RECURSIVE PutMember(_, _, _)
PutMember(members, key, v) ==
    IF members = <<>> THEN <<JPair(key, v)>>
    ELSE IF Head(members).s = key THEN <<JPair(key, v)>> \o Tail(members)
    ELSE <<Head(members)>> \o PutMember(Tail(members), key, v)

\* json.loads' decoder (json.decoder scan_once): a value, then for an array
\* its elements separated by commas, for an object its "key": value members
RECURSIVE ParseValue(_), ParseElements(_, _), ParseMembers(_, _)
ParseValue(ts) ==
    LET t == SkipWs(ts)
    IN IF t = <<>> THEN ParseFail
       ELSE LET h == Head(t)
                r == SkipWs(Tail(t))
            IN CASE h.k = "str" -> ParseOk(JStr(h.s), Tail(t))
                 [] h.k = "null" -> ParseOk(JNull, Tail(t))
                 [] h.k = "[" ->
                      IF r # <<>> /\ Head(r).k = "]" THEN ParseOk(JArr(<<>>), Tail(r))
                      ELSE ParseElements(Tail(t), <<>>)
                 [] h.k = "{" ->
                      IF r # <<>> /\ Head(r).k = "}" THEN ParseOk(JObj(<<>>), Tail(r))
                      ELSE ParseMembers(Tail(t), <<>>)
                 [] OTHER -> ParseFail

ParseElements(ts, acc) ==
    LET e == ParseValue(ts)
        r == SkipWs(e.rest)
    IN IF ~e.ok \/ r = <<>> THEN ParseFail
       ELSE CASE Head(r).k = "," -> ParseElements(Tail(r), Append(acc, e.v))
              [] Head(r).k = "]" -> ParseOk(JArr(Append(acc, e.v)), Tail(r))
              [] OTHER -> ParseFail

ParseMembers(ts, acc) ==
    LET t == SkipWs(ts)
    IN IF t = <<>> \/ Head(t).k # "str" THEN ParseFail
       ELSE LET c == SkipWs(Tail(t))
            IN IF c = <<>> \/ Head(c).k # ":" THEN ParseFail
               ELSE LET e == ParseValue(Tail(c))
                        r == SkipWs(e.rest)
                        members == PutMember(acc, Head(t).s, e.v)
                    IN IF ~e.ok \/ r = <<>> THEN ParseFail
                       ELSE CASE Head(r).k = "," -> ParseMembers(Tail(r), members)
                              [] Head(r).k = "}" -> ParseOk(JObj(members), Tail(r))
                              [] OTHER -> ParseFail

\* a mutant of Loads: text the decoder rejects is taken as an empty array
LoadsLenient(ts) ==
    LET p == ParseValue(ts)
    IN IF p.ok /\ SkipWs(p.rest) = <<>> THEN [ok |-> TRUE, v |-> p.v]
       ELSE [ok |-> TRUE, v |-> JArr(<<>>)]

\* json.loads(result_text): the one value of the text, nothing after it but
\* whitespace; ok is FALSE where json.JSONDecodeError is raised
Loads(ts) ==
    LET p == ParseValue(ts)
    IN IF p.ok /\ SkipWs(p.rest) = <<>> THEN [ok |-> TRUE, v |-> p.v]
       ELSE [ok |-> FALSE, v |-> JNull]

\* json.dumps(v, indent=2) at nesting depth d: an empty container is written
\* closed, any other with each item on a line of its own, two spaces deeper
RECURSIVE DumpsAt(_, _), DumpItems(_, _, _)
DumpsAt(v, d) ==
    CASE v.t = "str" -> <<TStr(v.s)>>
      [] v.t = "null" -> <<Tok("null")>>
      [] v.t = "pair" -> <<TStr(v.s), Tok(":"), Tok("sp")>> \o DumpsAt(v.a[1], d)
      [] v.t = "arr" ->
           IF v.a = <<>> THEN <<Tok("["), Tok("]")>>
           ELSE <<Tok("[")>> \o DumpItems(v.a, d + 2, TRUE) \o <<TNl(d), Tok("]")>>
      [] v.t = "obj" ->
           IF v.a = <<>> THEN <<Tok("{"), Tok("}")>>
           ELSE <<Tok("{")>> \o DumpItems(v.a, d + 2, TRUE) \o <<TNl(d), Tok("}")>>

DumpItems(items, d, first) ==
    IF items = <<>> THEN <<>>
    ELSE (IF first THEN <<>> ELSE <<Tok(",")>>)
         \o <<TNl(d)>> \o DumpsAt(Head(items), d) \o DumpItems(Tail(items), d, FALSE)

Dumps(v) == DumpsAt(v, 0)

\* the same value written without any whitespace, as a server may send it
RECURSIVE Compact(_), CompactItems(_, _)
Compact(v) ==
    CASE v.t = "str" -> <<TStr(v.s)>>
      [] v.t = "null" -> <<Tok("null")>>
      [] v.t = "pair" -> <<TStr(v.s), Tok(":")>> \o Compact(v.a[1])
      [] v.t = "arr" -> <<Tok("[")>> \o CompactItems(v.a, TRUE) \o <<Tok("]")>>
      [] v.t = "obj" -> <<Tok("{")>> \o CompactItems(v.a, TRUE) \o <<Tok("}")>>

CompactItems(items, first) ==
    IF items = <<>> THEN <<>>
    ELSE (IF first THEN <<>> ELSE <<Tok(",")>>)
         \o Compact(Head(items)) \o CompactItems(Tail(items), FALSE)

\* `if x:` on a decoded value
Truthy(v) ==
    CASE v.t = "str" -> v.s # ""
      [] v.t = "null" -> FALSE
      [] OTHER -> v.a # <<>>

\* dict.get(key, default)
Get(obj, key, default) ==
    IF \E j \in 1..Len(obj.a) : obj.a[j].s = key
    THEN LET j == CHOOSE j \in 1..Len(obj.a) : obj.a[j].s = key IN obj.a[j].a[1]
    ELSE default

\* str(x) inside an f-string
Show(v) == IF v.t = "str" THEN v.s ELSE "None"

\* ------------------------------------------------------------------ inputs
\* the i-th element of a list-valued field
Items(n) == [j \in 1..n |-> JStr(ToString(j))]

ListFields == <<"metasploit_modules", "exploit_links", "other_tools_and_formats">>

\* a record with all five fields of the responseSchema, its lists full
FullRecord ==
    JObj(<<JPair("name", JStr("X")), JPair("description", JStr("Y")),
           JPair("metasploit_modules", JArr(Items(MaxList))),
           JPair("exploit_links", JArr(Items(MaxList))),
           JPair("other_tools_and_formats", JArr(Items(MaxList)))>>)

\* a record holding the given list fields (None: the field is absent)
ListsRecord(msf, links, tools) ==
    JObj(<<JPair("name", JStr("X")), JPair("description", JStr("Y"))>>
         \o (IF msf = JNull THEN <<>> ELSE <<JPair("metasploit_modules", msf)>>)
         \o (IF links = JNull THEN <<>> ELSE <<JPair("exploit_links", links)>>)
         \o (IF tools = JNull THEN <<>> ELSE <<JPair("other_tools_and_formats", tools)>>))

\* the records an answer may hold: the full one; the one with no field at all;
\* one without name and description; three in which each list field is in turn
\* absent, empty and full; and one for each shorter length of the lists
Records ==
    {FullRecord, JObj(<<>>),
     JObj(<<JPair("metasploit_modules", JArr(Items(1))),
            JPair("exploit_links", JArr(<<>>)),
            JPair("other_tools_and_formats", JArr(Items(MaxList)))>>),
     ListsRecord(JNull, JArr(<<>>), JArr(Items(MaxList))),
     ListsRecord(JArr(<<>>), JArr(Items(MaxList)), JNull),
     ListsRecord(JArr(Items(MaxList)), JNull, JArr(<<>>))}
    \cup {ListsRecord(JArr(Items(n)), JArr(Items(MaxList - n)), JArr(Items(n))) :
            n \in 1..(MaxList - 1)}

RECURSIVE SeqsUpTo(_, _)
SeqsUpTo(S, n) ==
    IF n = 0 THEN {<<>>}
    ELSE LET shorter == SeqsUpTo(S, n - 1)
         IN shorter \cup {Append(q, x) : q \in {t \in shorter : Len(t) = n - 1}, x \in S}

\* answers that are arrays of vulnerability records
RecordArrays == {JArr(q) : q \in SeqsUpTo(Records, MaxRecords)}

\* answers that decode to something else
OtherValues == {JNull, JObj(<<>>), JArr(<<JStr("X")>>)}

\* texts json.loads rejects: nothing, an unclosed array, a missing element,
\* text after the value, prose, a cut-off answer
InvalidTexts ==
    { <<>>,
      <<Tok("[")>>,
      <<Tok("["), Tok(","), Tok("]")>>,
      <<Tok("["), Tok("]"), Tok("]")>>,
      <<Tok("word")>>,
      SubSeq(Compact(JArr(<<FullRecord>>)), 1, Len(Compact(JArr(<<FullRecord>>))) - 1) }

\* every answer text of the model
AllTexts ==
    {Compact(v) : v \in RecordArrays \cup OtherValues}
    \cup {Dumps(JArr(<<FullRecord>>)), <<Tok("sp"), Tok("["), TNl(0), Tok("]"), Tok("sp")>>}
    \cup InvalidTexts

\* a few of them, where the credential is what varies
FewTexts ==
    {Compact(JArr(<<>>)), Compact(JArr(<<FullRecord, JObj(<<>>)>>)),
     Compact(JArr(<<JStr("X")>>)), <<Tok("word")>>}

\* the answer texts the endpoint draws from
ServerTexts == IF server = "all" THEN AllTexts ELSE FewTexts

\* final status codes of the POST
StatusCodes == {200, 300, 400, 503}

\* what response.json()[...]["text"] meets in the body
Envelopes == {"not_json", "missing_key", "empty_list", "ok"}

KeyFileKinds == {"missing", "dir", "unreadable", "file"}
ResultsFileKinds == {"missing", "dir", "unreadable", "file"}

NoResponse == [status |-> 0, envelope |-> "none", text |-> <<>>]
NoValue == [t |-> "none", s |-> "", a |-> <<>>]
NoFile == <<Tok("nofile")>>

\* <file_path>.log before the run: absent, or left by an earlier run
LogFilesBefore == {NoFile, <<Tok("word")>>}

\* ------------------------------------------------------------------ query tool
KeyFiles(contents) ==
    {[kind |-> kd, content |-> <<>>] : kd \in KeyFileKinds \ {"file"}}
    \cup {[kind |-> "file", content |-> c] : c \in contents}

\* the setup tool is not running
SetupIdle ==
    /\ ipc = "idle"
    /\ inst = [none |-> TRUE]
    /\ steps = <<>>
    /\ inst_api_key = None
    /\ api_key_setup_successful = "unset"
    /\ exitCode = -1
    /\ iout = <<>>

\* the state main() starts in, for given sets of inputs
QueryInit(envKeys, keyFiles, texts) ==
    /\ envKey \in envKeys
    /\ keyFile \in keyFiles
    /\ resultsFile \in ResultsFileKinds
    /\ server = texts
    /\ pc = "start"
    /\ api_key = None
    /\ keyFileOps = <<>>
    /\ posted = <<>>
    /\ response = NoResponse
    /\ ai_response_json = NoValue
    /\ logFile \in LogFilesBefore
    /\ logTried = FALSE
    /\ i = 0
    /\ out = <<>>
    /\ SetupIdle

\* the answers vary; the credential takes a few values
Init ==
    QueryInit({None, <<"e">>},
              KeyFiles({<<>>, <<" ", "k", "\n">>}),
              "all")

\* the credential file varies; the answers take a few values
InitCred ==
    QueryInit({None, <<>>, <<"e">>, <<"e", " ">>},
              KeyFiles(StringsUpTo(Chars, MaxLen)),
              "few")

\* print(...) of the messages ms, then return from main()
Return(ms) ==
    /\ out' = out \o ms
    /\ pc' = "done"

\* a mutant of GetEnvKey: the fallback file is consulted whatever the variable holds
GetEnvKeyAlwaysFile ==
    /\ pc = "start"
    /\ api_key' = envKey
    /\ out' = Append(out, Msg("env_not_set"))
    /\ pc' = "key_file"
    /\ UNCHANGED <<envKey, keyFile, resultsFile, server, keyFileOps, posted,
                   response, ai_response_json, logFile, logTried, i, ivars>>

\* api_key = os.getenv("GEMINI_API_KEY"); if not api_key: ...
GetEnvKey ==
    /\ pc = "start"
    /\ api_key' = envKey
    /\ IF Falsy(envKey)
       THEN /\ out' = Append(out, Msg("env_not_set"))
            /\ pc' = "key_file"
       ELSE /\ out' = out
            /\ pc' = "final_check"
    /\ UNCHANGED <<envKey, keyFile, resultsFile, server, keyFileOps, posted,
                   response, ai_response_json, logFile, logTried, i, ivars>>

\* a mutant of KeyFileNotFound: the run goes on without a credential file
KeyFileNotFoundGoesOn ==
    /\ pc = "key_file"
    /\ keyFile.kind \in {"missing", "dir"}
    /\ keyFileOps' = Append(keyFileOps, "exists")
    /\ api_key' = <<"k">>
    /\ out' = Append(out, Msg("key_file_not_found"))
    /\ pc' = "results_file"
    /\ UNCHANGED <<envKey, keyFile, resultsFile, server, posted,
                   response, ai_response_json, logFile, logTried, i, ivars>>

\* os.path.exists(...) and os.path.isfile(...) is false: the else branch
KeyFileNotFound ==
    /\ pc = "key_file"
    /\ keyFile.kind \in {"missing", "dir"}
    /\ keyFileOps' = Append(keyFileOps, "exists")
    /\ Return(<<Msg("key_file_not_found"), Msg("key_hint")>>)
    /\ UNCHANGED <<envKey, keyFile, resultsFile, server, api_key, posted,
                   response, ai_response_json, logFile, logTried, i, ivars>>

\* open() or read() raises: except Exception
KeyFileUnreadable ==
    /\ pc = "key_file"
    /\ keyFile.kind = "unreadable"
    /\ keyFileOps' = keyFileOps \o <<"exists", "open">>
    /\ Return(<<Msg("key_file_error")>>)
    /\ UNCHANGED <<envKey, keyFile, resultsFile, server, api_key, posted,
                   response, ai_response_json, logFile, logTried, i, ivars>>

\* api_key = f.read().strip(); an empty key ends the run
ReadKeyFile ==
    /\ pc = "key_file"
    /\ keyFile.kind = "file"
    /\ keyFileOps' = keyFileOps \o <<"exists", "open", "read">>
    /\ api_key' = Strip(keyFile.content)
    /\ IF Falsy(api_key')
       THEN Return(<<Msg("key_file_empty")>>)
       ELSE /\ out' = Append(out, Msg("key_loaded"))
            /\ pc' = "final_check"
    /\ UNCHANGED <<envKey, keyFile, resultsFile, server, posted,
                   response, ai_response_json, logFile, logTried, i, ivars>>

\* if not api_key: the final check
FinalKeyCheck ==
    /\ pc = "final_check"
    /\ IF Falsy(api_key)
       THEN Return(<<Msg("no_key_fatal"), Msg("key_hint")>>)
       ELSE /\ out' = out
            /\ pc' = "results_file"
    /\ UNCHANGED <<envKey, keyFile, resultsFile, server, api_key, keyFileOps, posted,
                   response, ai_response_json, logFile, logTried, i, ivars>>

\* a mutant of CheckResultsFile: a missing file is reported and the run goes on
CheckResultsFileGoesOn ==
    /\ pc = "results_file"
    /\ IF resultsFile = "missing"
       THEN /\ out' = Append(out, Msg("file_not_found"))
            /\ pc' = "post"
       ELSE IF resultsFile = "dir"
       THEN Return(<<Msg("not_a_file")>>)
       ELSE /\ out' = out
            /\ pc' = "read_results"
    /\ UNCHANGED <<envKey, keyFile, resultsFile, server, api_key, keyFileOps, posted,
                   response, ai_response_json, logFile, logTried, i, ivars>>

\* os.path.exists(file_path), os.path.isfile(file_path)
CheckResultsFile ==
    /\ pc = "results_file"
    /\ IF resultsFile = "missing"
       THEN Return(<<Msg("file_not_found")>>)
       ELSE IF resultsFile = "dir"
       THEN Return(<<Msg("not_a_file")>>)
       ELSE /\ out' = out
            /\ pc' = "read_results"
    /\ UNCHANGED <<envKey, keyFile, resultsFile, server, api_key, keyFileOps, posted,
                   response, ai_response_json, logFile, logTried, i, ivars>>

\* file_content = f.read(), then the prompt and the payload are built from it
ReadResultsFile ==
    /\ pc = "read_results"
    /\ IF resultsFile = "unreadable"
       THEN Return(<<Msg("file_read_error")>>)
       ELSE /\ out' = out
            /\ pc' = "post"
    /\ UNCHANGED <<envKey, keyFile, resultsFile, server, api_key, keyFileOps, posted,
                   response, ai_response_json, logFile, logTried, i, ivars>>

\* a mutant of RaisesForStatus: only client errors raise
RaisesForClientErrorOnly(st) == 400 <= st /\ st < 500

\* response.raise_for_status(): "Raise an exception for HTTP errors (4xx or 5xx)"
RaisesForStatus(st) == 400 <= st /\ st < 600

\* what the except clauses print
CommError == <<Msg("comm_error"), Msg("check_connection")>>
JsonError == <<Msg("json_error"), Msg("raw_response")>>
KeyError == <<Msg("key_error"), Msg("full_response")>>
UnexpectedError == <<Msg("unexpected_error")>>

\* apiUrl = f"...?key={api_key}"; requests.post(apiUrl, ...); raise_for_status()
PostRequest ==
    /\ pc = "post"
    /\ posted' = Append(posted, api_key)
    /\ \/ /\ response' = NoResponse
          /\ Return(<<Msg("sending")>> \o CommError)
       \/ \E st \in StatusCodes, en \in Envelopes, txt \in ServerTexts :
             /\ response' = [status |-> st, envelope |-> en,
                             text |-> IF en = "ok" THEN txt ELSE <<>>]
             /\ IF RaisesForStatus(st)
                THEN Return(<<Msg("sending")>> \o CommError)
                ELSE /\ out' = Append(out, Msg("sending"))
                     /\ pc' = "extract"
    /\ UNCHANGED <<envKey, keyFile, resultsFile, server, api_key, keyFileOps,
                   ai_response_json, logFile, logTried, i, ivars>>

\* result_text = response.json()["candidates"][0]["content"]["parts"][0]["text"]
\* A body that is no JSON raises requests' JSONDecodeError, which the installed
\* version of requests derives from RequestException, from json.JSONDecodeError,
\* or from both: either of the first two except clauses may take it.
ExtractText ==
    /\ pc = "extract"
    /\ CASE response.envelope = "not_json" ->
              \E ms \in {CommError, JsonError} : Return(ms)
         [] response.envelope = "missing_key" -> Return(KeyError)
         [] response.envelope = "empty_list" -> Return(UnexpectedError)
         [] OTHER -> /\ out' = out
                     /\ pc' = "parse"
    /\ UNCHANGED <<envKey, keyFile, resultsFile, server, api_key, keyFileOps, posted,
                   response, ai_response_json, logFile, logTried, i, ivars>>

\* ai_response_json = json.loads(result_text)
ParseAnswer ==
    /\ pc = "parse"
    /\ LET r == Loads(response.text)
       IN IF r.ok
          THEN /\ ai_response_json' = r.v
               /\ out' = out
               /\ pc' = "log"
          ELSE /\ ai_response_json' = ai_response_json
               /\ Return(JsonError)
    /\ UNCHANGED <<envKey, keyFile, resultsFile, server, api_key, keyFileOps, posted,
                   response, logFile, logTried, i, ivars>>

\* a mutant of WriteLog: a failed write ends the run
WriteLogFatal ==
    /\ pc = "log"
    /\ logTried' = TRUE
    /\ \/ /\ logFile' = Dumps(ai_response_json)
          /\ out' = Append(out, Msg("log_saved"))
          /\ pc' = "render"
       \/ /\ logFile' \in {logFile, <<>>}
          /\ Return(<<Msg("log_warning")>>)
    /\ UNCHANGED <<envKey, keyFile, resultsFile, server, api_key, keyFileOps, posted,
                   response, ai_response_json, i, ivars>>

\* with open(log_file_path, 'w') as f: f.write(json.dumps(ai_response_json, indent=2))
\* The write succeeds, or open() fails and the file is as it was, or write()
\* fails after open() has truncated the file; a failure is only a warning.
WriteLog ==
    /\ pc = "log"
    /\ logTried' = TRUE
    /\ \/ /\ logFile' = Dumps(ai_response_json)
          /\ out' = Append(out, Msg("log_saved"))
       \/ /\ logFile' \in {logFile, <<>>}
          /\ out' = Append(out, Msg("log_warning"))
    /\ pc' = "render"
    /\ UNCHANGED <<envKey, keyFile, resultsFile, server, api_key, keyFileOps, posted,
                   response, ai_response_json, i, ivars>>

\* a mutant of RenderHeader: an empty answer is rendered like any other
RenderHeaderSilent ==
    /\ pc = "render"
    /\ out' = Append(out, Msg("analysis_header"))
    /\ pc' = "loop"
    /\ i' = 0
    /\ UNCHANGED <<envKey, keyFile, resultsFile, server, api_key, keyFileOps, posted,
                   response, ai_response_json, logFile, logTried, ivars>>

\* the banner, then `if not ai_response_json:` the distinct message and return
RenderHeader ==
    /\ pc = "render"
    /\ IF ~Truthy(ai_response_json)
       THEN Return(<<Msg("analysis_header"), Msg("no_vulnerabilities")>>)
       ELSE /\ out' = Append(out, Msg("analysis_header"))
            /\ pc' = "loop"
    /\ i' = 0
    /\ UNCHANGED <<envKey, keyFile, resultsFile, server, api_key, keyFileOps, posted,
                   response, ai_response_json, logFile, logTried, ivars>>

\* a list-valued field: its title line and a bullet per element, or the title
\* line ending with the placeholder
ListLines(field, placeholder, v) ==
    IF Truthy(v)
    THEN <<MsgN(field, 0, "")>> \o [j \in 1..Len(v.a) |-> MsgN("bullet", 0, Show(v.a[j]))]
    ELSE <<MsgN(field, 0, placeholder)>>

\* a mutant of RecordLines: bullets are printed last element first, and an
\* absent name is printed empty
RecordLinesReversed(num, vuln) ==
    LET Reversed(v) == IF v.t = "arr"
                       THEN JArr([j \in 1..Len(v.a) |-> v.a[Len(v.a) + 1 - j]])
                       ELSE v
    IN <<MsgN("vulnerability", num, Show(Get(vuln, "name", JStr("")))),
         MsgN("description", 0, Show(Get(vuln, "description", JStr("N/A"))))>>
       \o ListLines("metasploit_modules", "None suggested.",
                    Reversed(Get(vuln, "metasploit_modules", JNull)))
       \o ListLines("other_tools_and_formats", "None suggested.",
                    Reversed(Get(vuln, "other_tools_and_formats", JNull)))
       \o ListLines("exploit_links", "None provided.",
                    Reversed(Get(vuln, "exploit_links", JNull)))

\* the body of `for i, vuln in enumerate(ai_response_json)` for record num
RecordLines(num, vuln) ==
    <<MsgN("vulnerability", num, Show(Get(vuln, "name", JStr("N/A")))),
      MsgN("description", 0, Show(Get(vuln, "description", JStr("N/A"))))>>
    \o ListLines("metasploit_modules", "None suggested.",
                 Get(vuln, "metasploit_modules", JNull))
    \o ListLines("other_tools_and_formats", "None suggested.",
                 Get(vuln, "other_tools_and_formats", JNull))
    \o ListLines("exploit_links", "None provided.",
                 Get(vuln, "exploit_links", JNull))

\* what the for loop iterates over: an array's elements, a dict's keys
Iter(v) ==
    IF v.t = "obj" THEN [j \in 1..Len(v.a) |-> JStr(v.a[j].s)] ELSE v.a

\* one iteration of the loop; an element without .get raises AttributeError,
\* which `except Exception` reports
RenderRecord ==
    /\ pc = "loop"
    /\ i < Len(Iter(ai_response_json))
    /\ LET vuln == Iter(ai_response_json)[i + 1]
       IN IF vuln.t = "obj"
          THEN /\ out' = out \o RecordLines(i + 1, vuln)
               /\ i' = i + 1
               /\ pc' = pc
          ELSE /\ Return(UnexpectedError)
               /\ i' = i
    /\ UNCHANGED <<envKey, keyFile, resultsFile, server, api_key, keyFileOps, posted,
                   response, ai_response_json, logFile, logTried, ivars>>

\* after the loop: the completion banner
RenderComplete ==
    /\ pc = "loop"
    /\ i = Len(Iter(ai_response_json))
    /\ Return(<<Msg("analysis_complete")>>)
    /\ UNCHANGED <<envKey, keyFile, resultsFile, server, api_key, keyFileOps, posted,
                   response, ai_response_json, logFile, logTried, i, ivars>>

Next ==
    \/ GetEnvKey
    \/ KeyFileNotFound
    \/ KeyFileUnreadable
    \/ ReadKeyFile
    \/ FinalKeyCheck
    \/ CheckResultsFile
    \/ ReadResultsFile
    \/ PostRequest
    \/ ExtractText
    \/ ParseAnswer
    \/ WriteLog
    \/ RenderHeader
    \/ RenderRecord
    \/ RenderComplete

Spec == Init /\ [][Next]_vars
SpecCred == InitCred /\ [][Next]_vars

\* ------------------------------------------------------------------ setup tool
\* the query tool is not running
QueryIdle ==
    /\ envKey = None
    /\ keyFile = [kind |-> "missing", content |-> <<>>]
    /\ resultsFile = "missing"
    /\ server = "few"
    /\ pc = "idle"
    /\ api_key = None
    /\ keyFileOps = <<>>
    /\ posted = <<>>
    /\ response = NoResponse
    /\ ai_response_json = NoValue
    /\ logFile = NoFile
    /\ logTried = FALSE
    /\ i = 0
    /\ out = <<>>

\* what the operator types at the prompt; None: standard input is at its end
PromptInputs == {None, <<>>, <<" ">>, <<"k">>, <<" ", "k", "\n">>}

\* sys.platform, as the code tells platforms apart
Platforms == {"linux", "darwin", "win32", "other"}

\* the state main_installation() starts in: inst says what each step will meet
InitInstall ==
    /\ QueryIdle
    /\ ipc = "start"
    /\ inst \in [importable : BOOLEAN, pipOk : BOOLEAN, input : PromptInputs,
                 platform : Platforms, zshrc : BOOLEAN, persistOk : BOOLEAN,
                 dirExists : BOOLEAN, mkdirOk : BOOLEAN, echoOk : BOOLEAN,
                 chmodOk : BOOLEAN]
    /\ steps = <<>>
    /\ inst_api_key = None
    /\ api_key_setup_successful = "unset"
    /\ exitCode = -1
    /\ iout = <<>>

IPrinted(kind) == \E j \in 1..Len(iout) : iout[j] = kind
Attempted(step) == \E j \in 1..Len(steps) : steps[j] = step

\* install_dependencies(): True when requests imports or pip installs it
DependenciesInstalled == inst.importable \/ inst.pipOk

\* a mutant of CheckDependencies: a failed installation is reported and setup goes on
CheckDependenciesGoesOn ==
    /\ ipc = "start"
    /\ steps' = steps \o <<"import">> \o (IF inst.importable THEN <<>> ELSE <<"pip">>)
    /\ iout' = iout \o (IF DependenciesInstalled THEN <<>> ELSE <<"installation_failed">>)
    /\ exitCode' = exitCode
    /\ ipc' = "prompt"
    /\ UNCHANGED <<inst, inst_api_key, api_key_setup_successful, qvars>>

\* if not install_dependencies(): print(...); sys.exit(1)
CheckDependencies ==
    /\ ipc = "start"
    /\ steps' = steps \o <<"import">> \o (IF inst.importable THEN <<>> ELSE <<"pip">>)
    /\ IF DependenciesInstalled
       THEN /\ iout' = Append(iout, IF inst.importable THEN "already_installed"
                                                        ELSE "installed")
            /\ exitCode' = exitCode
            /\ ipc' = "prompt"
       ELSE /\ iout' = iout \o <<"install_failed", "installation_failed">>
            /\ exitCode' = 1
            /\ ipc' = "exited"
    /\ UNCHANGED <<inst, inst_api_key, api_key_setup_successful, qvars>>

\* api_key = input(...).strip(); an empty key returns False.  At the end of
\* standard input input() raises EOFError, which nothing catches.
PromptApiKey ==
    /\ ipc = "prompt"
    /\ steps' = Append(steps, "prompt")
    /\ IF inst.input = None
       THEN /\ inst_api_key' = inst_api_key
            /\ api_key_setup_successful' = api_key_setup_successful
            /\ iout' = Append(iout, "traceback")
            /\ exitCode' = 1
            /\ ipc' = "exited"
       ELSE /\ inst_api_key' = Strip(inst.input)
            /\ exitCode' = exitCode
            /\ IF Falsy(inst_api_key')
               THEN /\ api_key_setup_successful' = "false"
                    /\ iout' = Append(iout, "key_empty")
                    /\ ipc' = "report"
               ELSE /\ api_key_setup_successful' = api_key_setup_successful
                    /\ iout' = iout
                    /\ ipc' = "persist"
    /\ UNCHANGED <<inst, qvars>>

\* a mutant of PersistEnv: a failure to persist the variable returns False
PersistEnvFatal ==
    /\ ipc = "persist"
    /\ CASE inst.platform \in {"linux", "darwin"} ->
              /\ steps' = Append(steps, IF inst.zshrc THEN "append_zshrc" ELSE "append_bashrc")
              /\ iout' = Append(iout, IF inst.persistOk THEN "profile_written"
                                                       ELSE "profile_failed")
         [] inst.platform = "win32" ->
              /\ steps' = Append(steps, "setx")
              /\ iout' = Append(iout, IF inst.persistOk THEN "setx_done" ELSE "setx_failed")
         [] OTHER ->
              /\ steps' = steps
              /\ iout' = Append(iout, "unsupported_os")
    /\ IF inst.platform # "other" /\ ~inst.persistOk
       THEN /\ api_key_setup_successful' = "false"
            /\ ipc' = "report"
       ELSE /\ api_key_setup_successful' = api_key_setup_successful
            /\ ipc' = "dir"
    /\ UNCHANGED <<inst, inst_api_key, exitCode, qvars>>

\* the environment variable: appended to ~/.zshrc (if it exists) or ~/.bashrc
\* on Linux and macOS, setx on Windows, a manual hint elsewhere; a failure is
\* reported and the function goes on
PersistEnv ==
    /\ ipc = "persist"
    /\ CASE inst.platform \in {"linux", "darwin"} ->
              /\ steps' = Append(steps, IF inst.zshrc THEN "append_zshrc" ELSE "append_bashrc")
              /\ iout' = Append(iout, IF inst.persistOk THEN "profile_written"
                                                       ELSE "profile_failed")
         [] inst.platform = "win32" ->
              /\ steps' = Append(steps, "setx")
              /\ iout' = Append(iout, IF inst.persistOk THEN "setx_done" ELSE "setx_failed")
         [] OTHER ->
              /\ steps' = steps
              /\ iout' = Append(iout, "unsupported_os")
    /\ ipc' = "dir"
    /\ UNCHANGED <<inst, inst_api_key, api_key_setup_successful, exitCode, qvars>>

\* if not os.path.exists(api_key_dir): mkdir -p, whose failure returns False
EnsureDirectory ==
    /\ ipc = "dir"
    /\ IF inst.dirExists
       THEN /\ steps' = Append(steps, "dir_exists")
            /\ iout' = iout
            /\ api_key_setup_successful' = api_key_setup_successful
            /\ ipc' = "write"
       ELSE /\ steps' = steps \o <<"dir_exists", "mkdir">>
            /\ IF inst.mkdirOk
               THEN /\ iout' = iout
                    /\ api_key_setup_successful' = api_key_setup_successful
                    /\ ipc' = "write"
               ELSE /\ iout' = Append(iout, "mkdir_failed")
                    /\ api_key_setup_successful' = "false"
                    /\ ipc' = "report"
    /\ UNCHANGED <<inst, inst_api_key, exitCode, qvars>>

\* echo "<key>" > /usr/share/vortexai/apikey.txt, whose failure returns False
WriteFallbackFile ==
    /\ ipc = "write"
    /\ steps' = Append(steps, "echo")
    /\ IF inst.echoOk
       THEN /\ iout' = Append(iout, "key_saved")
            /\ api_key_setup_successful' = api_key_setup_successful
            /\ ipc' = "chmod"
       ELSE /\ iout' = Append(iout, "save_failed")
            /\ api_key_setup_successful' = "false"
            /\ ipc' = "report"
    /\ UNCHANGED <<inst, inst_api_key, exitCode, qvars>>

\* chmod 644, whose failure is a warning; then return True
SetPermissions ==
    /\ ipc = "chmod"
    /\ steps' = Append(steps, "chmod")
    /\ iout' = Append(iout, IF inst.chmodOk THEN "permissions_set" ELSE "chmod_warning")
    /\ api_key_setup_successful' = "true"
    /\ ipc' = "report"
    /\ UNCHANGED <<inst, inst_api_key, exitCode, qvars>>

\* if not api_key_setup_successful: the warning; else the completion message;
\* main_installation() then returns and the process ends with code 0
ReportSetup ==
    /\ ipc = "report"
    /\ iout' = Append(iout, IF api_key_setup_successful = "true"
                            THEN "installation_complete" ELSE "key_setup_issues")
    /\ exitCode' = 0
    /\ ipc' = "exited"
    /\ UNCHANGED <<inst, steps, inst_api_key, api_key_setup_successful, qvars>>

NextInstall ==
    \/ CheckDependencies
    \/ PromptApiKey
    \/ PersistEnv
    \/ EnsureDirectory
    \/ WriteFallbackFile
    \/ SetPermissions
    \/ ReportSetup

SpecInstall == InitInstall /\ [][NextInstall]_vars

\* ------------------------------------------------------------------ claims
\* the messages with which main() reports an error
ErrorKinds ==
    {"key_file_not_found", "key_file_error", "key_file_empty", "no_key_fatal",
     "file_not_found", "not_a_file", "file_read_error",
     "comm_error", "json_error", "key_error", "unexpected_error"}

ErrorReported == \E j \in 1..Len(out) : out[j].k \in ErrorKinds

\* C1: with GEMINI_API_KEY unset or empty and no fallback file, no HTTP request
\* is ever issued, the run never gets past the credential stage, and when it
\* has ended it has reported the missing file and named both ways to give a key.
C1_NoCredentialNoRequest ==
    (Falsy(envKey) /\ keyFile.kind = "missing") =>
        /\ posted = <<>>
        /\ response = NoResponse
        /\ pc \in {"start", "key_file", "done"}
        /\ pc = "done" => Printed("key_file_not_found") /\ Printed("key_hint")

C1_Witness ==
    /\ Falsy(envKey)
    /\ keyFile.kind = "missing"
    /\ pc = "done"
    /\ Printed("key_file_not_found")

\* C2: with GEMINI_API_KEY set to a non-empty string, no operation (existence
\* test, open, read) is ever performed on the fallback file, and every request
\* carries the environment value as its key.
C2_EnvKeyFirst ==
    ~Falsy(envKey) =>
        /\ keyFileOps = <<>>
        /\ \A j \in 1..Len(posted) : posted[j] = envKey

C2_Witness ==
    /\ ~Falsy(envKey)
    /\ keyFile.kind = "file"
    /\ Strip(keyFile.content) # <<>>
    /\ Len(posted) = 1

\* C3: with the variable unset or empty and a fallback file whose content is
\* whitespace, then K (non-empty, neither starting nor ending with whitespace),
\* then whitespace, the credential loaded is K, and K is the key of the request.
C3_FileKeyTrimmed ==
    (Falsy(envKey) /\ keyFile.kind = "file") =>
        LET c == keyFile.content
        IN \A a, b \in 1..Len(c) :
              ( /\ a <= b
                /\ c[a] \notin Whitespace
                /\ c[b] \notin Whitespace
                /\ \A j \in 1..Len(c) : (j < a \/ j > b) => c[j] \in Whitespace )
              => /\ pc \notin {"start", "key_file"} => api_key = SubSeq(c, a, b)
                 /\ \A j \in 1..Len(posted) : posted[j] = SubSeq(c, a, b)

C3_Witness ==
    /\ Falsy(envKey)
    /\ keyFile.kind = "file"
    /\ keyFile.content = <<"\n", "k", " ", " ">>
    /\ posted = << <<"k">> >>

\* a credential can be resolved: from the variable, or from a readable fallback
\* file holding more than whitespace
CredentialAvailable ==
    \/ ~Falsy(envKey)
    \/ /\ keyFile.kind = "file"
       /\ \E j \in 1..Len(keyFile.content) : keyFile.content[j] \notin Whitespace

\* C4 as claimed: with a non-existent --results_file, every run reports the
\* file-not-found error and performs no HTTP request.
C4_AsClaimed ==
    (resultsFile = "missing" /\ pc = "done") =>
        Printed("file_not_found") /\ posted = <<>>

\* C4 as amended: with a non-existent --results_file, no run performs an HTTP
\* request; a run that resolved a credential ends with the file-not-found error,
\* and a run that resolved none ends at the credential error before it looks at
\* the file.
C4_MissingInputFile ==
    resultsFile = "missing" =>
        /\ posted = <<>>
        /\ response = NoResponse
        /\ pc = "done" => /\ ErrorReported
                          /\ Printed("file_not_found") <=> CredentialAvailable

C4_Witness ==
    /\ resultsFile = "missing"
    /\ pc = "done"
    /\ Printed("file_not_found")

\* no log file has been written and no record rendered
NoLogNoRecords ==
    /\ logTried = FALSE
    /\ logFile \in LogFilesBefore
    /\ ~Printed("vulnerability")

\* nothing of the answer has been used: no parse, no log write, no rendering
NothingRendered ==
    /\ NoLogNoRecords
    /\ ai_response_json = NoValue
    /\ ~Printed("analysis_header")

AnswerReceived ==
    /\ response # NoResponse
    /\ 200 <= response.status /\ response.status <= 299
    /\ response.envelope = "ok"

\* C6: after a successful response whose answer text is no valid JSON the log
\* file is never written and the run ends with the JSON-parsing error; and a
\* log write is attempted only with the answer text parsed.
C6_NoLogWithoutParse ==
    /\ (AnswerReceived /\ response.text \in InvalidTexts) =>
          /\ NothingRendered
          /\ pc \in {"extract", "parse", "done"}
          /\ pc = "done" => Printed("json_error")
    /\ logTried => /\ response.text \notin InvalidTexts
                   /\ ai_response_json # NoValue

C6_Witness ==
    /\ AnswerReceived
    /\ response.text = <<Tok("["), Tok(","), Tok("]")>>
    /\ pc = "done"
    /\ Printed("json_error")

\* the answer `[]`, as text
EmptyArrayText == <<Tok("["), Tok("]")>>

\* what has been printed from the log message on, the log message excluded
AfterLog ==
    LET at == CHOOSE j \in 1..Len(out) : out[j].k \in {"log_saved", "log_warning"}
    IN SubSeq(out, at + 1, Len(out))

\* nothing of a record and no completion banner has been printed
NoRecordOutput ==
    \A j \in 1..Len(out) :
        out[j].k \notin {"vulnerability", "description", "bullet", "analysis_complete",
                         "metasploit_modules", "exploit_links", "other_tools_and_formats"}

\* C7 as claimed: after a successful response with the answer text `[]`, the
\* log file holds `[]` and the run ends with the "no vulnerabilities" message,
\* no record output and no completion banner.
C7_AsClaimed ==
    (AnswerReceived /\ response.text = EmptyArrayText /\ pc = "done") =>
        /\ logFile = EmptyArrayText
        /\ AfterLog = <<Msg("analysis_header"), Msg("no_vulnerabilities")>>
        /\ NoRecordOutput

\* C7 as amended: after a successful response with the answer text `[]`, the
\* run attempts the log write before it prints the message; the log file holds
\* `[]` unless that write failed, in which case the warning was printed and the
\* file is as before or truncated; and the run ends with the "no
\* vulnerabilities" message, no record output and no completion banner.
C7_EmptyAnswer ==
    (AnswerReceived /\ response.text = EmptyArrayText) =>
        /\ NoRecordOutput
        /\ Printed("no_vulnerabilities") => logTried
        /\ logTried =>
              \/ Printed("log_saved") /\ ~Printed("log_warning") /\ logFile = EmptyArrayText
              \/ /\ Printed("log_warning") /\ ~Printed("log_saved")
                 /\ logFile \in LogFilesBefore \cup {<<>>}
        /\ pc = "done" => AfterLog = <<Msg("analysis_header"), Msg("no_vulnerabilities")>>

C7_Witness ==
    /\ AnswerReceived
    /\ response.text = EmptyArrayText
    /\ pc = "done"
    /\ logFile = EmptyArrayText
    /\ Printed("log_saved")
    /\ Printed("no_vulnerabilities")

\* ---- the rendering the claims describe
IsRecordArray(v) ==
    v.t = "arr" /\ \A j \in 1..Len(v.a) : v.a[j].t = "obj"

HasField(r, f) == \E j \in 1..Len(r.a) : r.a[j].s = f
FieldOf(r, f) == r.a[CHOOSE j \in 1..Len(r.a) : r.a[j].s = f].a[1]

\* a text field, or the placeholder when the record has none
TextOr(r, f, placeholder) == IF HasField(r, f) THEN FieldOf(r, f).s ELSE placeholder

PlaceholderOf(f) == IF f = "exploit_links" THEN "None provided." ELSE "None suggested."

\* a list field: the title and one bullet per element in order, or the title
\* with the placeholder when the list is empty or the field absent
Section(r, f) ==
    LET elems == IF HasField(r, f) THEN FieldOf(r, f).a ELSE <<>>
    IN IF Len(elems) > 0
       THEN <<MsgN(f, 0, "")>> \o [j \in 1..Len(elems) |-> MsgN("bullet", 0, elems[j].s)]
       ELSE <<MsgN(f, 0, PlaceholderOf(f))>>

\* the block of record number num, its list fields in the given order
Block(num, r, order) ==
    <<MsgN("vulnerability", num, TextOr(r, "name", "N/A")),
      MsgN("description", 0, TextOr(r, "description", "N/A"))>>
    \o Section(r, order[1]) \o Section(r, order[2]) \o Section(r, order[3])

\* the blocks of the first n records, in array order
RECURSIVE Blocks(_, _, _)
Blocks(recs, n, order) ==
    IF n = 0 THEN <<>>
    ELSE Blocks(recs, n - 1, order) \o Block(n, recs[n], order)

\* the orders in which the three list fields may follow the description
FieldOrders ==
    {<<ListFields[t[1]], ListFields[t[2]], ListFields[t[3]]>> :
        t \in {u \in (1..3) \X (1..3) \X (1..3) :
                  u[1] # u[2] /\ u[1] # u[3] /\ u[2] # u[3]}}

\* the order of lines 166-188: modules, tools, links
CodeOrder == <<"metasploit_modules", "other_tools_and_formats", "exploit_links">>

\* C8: a failing log write prints one warning and nothing else changes: no error
\* is reported, and the run ends having printed after the warning exactly what
\* a run with a successful write prints after its confirmation: the banner and
\* the "no vulnerabilities" message for an empty array, or else the banner,
\* the block of every record in array order and the completion banner.
C8_LogFailureNonFatal ==
    (logTried /\ IsRecordArray(ai_response_json)) =>
        /\ Printed("log_warning") \/ Printed("log_saved")
        /\ ~ErrorReported
        /\ pc \in {"render", "loop", "done"}
        /\ pc = "done" =>
              AfterLog = <<Msg("analysis_header")>>
                         \o (IF ai_response_json.a = <<>>
                             THEN <<Msg("no_vulnerabilities")>>
                             ELSE Blocks(ai_response_json.a, Len(ai_response_json.a), CodeOrder)
                                  \o <<Msg("analysis_complete")>>)

C8_Witness ==
    /\ Printed("log_warning")
    /\ logFile = <<>>
    /\ ai_response_json = JArr(<<JObj(<<>>), FullRecord>>)
    /\ pc = "done"
    /\ Printed("analysis_complete")

\* what has been printed after the "Vulnerability Analysis" banner
AfterBanner ==
    LET at == CHOOSE j \in 1..Len(out) : out[j].k = "analysis_header"
    IN SubSeq(out, at + 1, Len(out))

\* C9: for a non-empty array of records, what is printed after the banner is at
\* every moment the blocks of the records rendered so far, in array order and
\* numbered from 1: the name and the description (or 'N/A'), and each list
\* field as a bullet per element in element order or as its placeholder when
\* empty or absent; the run ends with the block of every record printed.
C9_RecordsRendered ==
    ( /\ IsRecordArray(ai_response_json)
      /\ ai_response_json.a # <<>>
      /\ Printed("analysis_header") ) =>
        /\ pc \in {"loop", "done"}
        /\ pc = "done" => i = Len(ai_response_json.a)
        /\ \E order \in FieldOrders :
              AfterBanner = Blocks(ai_response_json.a, i, order)
                            \o (IF pc = "done" THEN <<Msg("analysis_complete")>> ELSE <<>>)

C9_Witness ==
    /\ ai_response_json =
          JArr(<<ListsRecord(JNull, JArr(<<>>), JArr(Items(MaxList))), FullRecord>>)
    /\ pc = "done"
    /\ i = 2
    /\ Printed("analysis_complete")

\* C10: when the dependency cannot be installed, the credential prompt is never
\* reached and the process ends with a non-zero exit code; when setup_api_key
\* returned False, the process ends with exit code 0, having printed the warning
\* and never the 'installation complete' message.
C10_InstallerFatalSetupWarning ==
    /\ ~(inst.importable \/ inst.pipOk) =>
          /\ ~Attempted("prompt")
          /\ api_key_setup_successful = "unset"
          /\ ipc \in {"start", "exited"}
          /\ ipc = "exited" => exitCode > 0 /\ IPrinted("installation_failed")
    /\ api_key_setup_successful = "false" =>
          /\ exitCode \in {-1, 0}
          /\ ~IPrinted("installation_complete")
          /\ ipc \in {"report", "exited"}
          /\ ipc = "exited" => exitCode = 0 /\ IPrinted("key_setup_issues")

C10_Witness ==
    /\ api_key_setup_successful = "false"
    /\ Attempted("echo")
    /\ ipc = "exited"
    /\ exitCode = 0

\* the place of a step among the steps attempted
StepAt(step) == CHOOSE j \in 1..Len(steps) : steps[j] = step

\* the steps of setup_api_key after the prompt
SetupSteps == {"append_zshrc", "append_bashrc", "setx", "dir_exists", "mkdir", "echo", "chmod"}

\* C11: in setup_api_key, (a) a failure to persist the variable (profile append
\* or setx) does not end the function: the fallback-file step is begun next and
\* the function never returns without it; (b) the fallback file is written only
\* with the directory found or created, after that test, and a failed mkdir
\* returns False with no write; (c) the permission change is attempted only
\* after a write that succeeded, and the result is then True whether or not it
\* succeeds, while a failed write returns False with no permission change;
\* (d) a credential that is empty once trimmed returns False with none of
\* these steps attempted.
C11_StepsFailIndependently ==
    /\ (IPrinted("profile_failed") \/ IPrinted("setx_failed")) =>
          /\ ipc \in {"dir", "write", "chmod", "report", "exited"}
          /\ ipc \in {"write", "chmod", "report", "exited"} => Attempted("dir_exists")
    /\ Attempted("mkdir") =>
          /\ ~inst.dirExists
          /\ StepAt("dir_exists") < StepAt("mkdir")
          /\ ~inst.mkdirOk => /\ ~Attempted("echo")
                              /\ api_key_setup_successful = "false"
                              /\ ipc \in {"report", "exited"}
    /\ Attempted("echo") =>
          /\ Attempted("dir_exists")
          /\ StepAt("dir_exists") < StepAt("echo")
          /\ inst.dirExists \/ (Attempted("mkdir") /\ inst.mkdirOk)
          /\ ~inst.echoOk => /\ ~Attempted("chmod")
                             /\ api_key_setup_successful = "false"
                             /\ ipc \in {"report", "exited"}
    /\ Attempted("chmod") =>
          /\ Attempted("echo")
          /\ StepAt("echo") < StepAt("chmod")
          /\ inst.echoOk
          /\ api_key_setup_successful = "true"
          /\ IPrinted(IF inst.chmodOk THEN "permissions_set" ELSE "chmod_warning")
    /\ ( /\ Attempted("prompt")
         /\ inst.input # None
         /\ \A j \in 1..Len(inst.input) : inst.input[j] \in Whitespace ) =>
          /\ api_key_setup_successful = "false"
          /\ IPrinted("key_empty")
          /\ \A j \in 1..Len(steps) : steps[j] \notin SetupSteps

C11_Witness ==
    /\ IPrinted("profile_failed")
    /\ ~inst.dirExists
    /\ Attempted("mkdir")
    /\ Attempted("chmod")
    /\ ~inst.chmodOk
    /\ api_key_setup_successful = "true"
    /\ ipc = "exited"

====
